---- MODULE Spec2Model ----
(***************************************************************************)
(* The module-resolution-and-extraction engine of tsubabindgen's           *)
(* rust-extractor (packages/tsubabindgen/rust-extractor/src/main.rs).      *)
(*                                                                         *)
(* A crate is a file tree (fs) whose module files hold syntax-tree items.  *)
(* The recursion collect_module_file -> collect_module_items is unfolded   *)
(* into an explicit call stack: one step per item of the innermost frame.  *)
(* Type texts are carried verbatim (the token rendering of a type is not   *)
(* modelled); an Issue keeps file, kind and snippet (its reason is fixed   *)
(* by the kind).                                                           *)
(***************************************************************************)
EXTENDS Integers, Sequences, FiniteSets, TLC

VARIABLES
    args,      \* number of command-line arguments after the program name
    fs,        \* the crate on disk: path -> entry (absent, file, symlink)
    pc,        \* "start", "walk", "ok", "failed"
    stack,     \* active collect_module_items invocations, innermost last
    seen,      \* seen_files: canonical paths already visited
    out,       \* the modules vector filled by collect_module_items
    stdout,    \* JSON documents printed
    stderr,    \* error lines printed
    calls,     \* history: canonical path -> number of collect_module_file calls
    reads,     \* history: canonical path -> module paths it was read and parsed under
    resolved,  \* history: resolutions done by resolve_child_module_file
    origin,    \* history: origin[i] is the item list out[i] was collected from
    runs,      \* 1 for the first invocation, 2 for the invocation on the reordered crate
    prev       \* stdout of the first invocation (kept for the second)

vars == <<args, fs, pc, stack, seen, out, stdout, stderr, calls, reads, resolved, origin,
          runs, prev>>

\* ------------------------------------------------------------------ bounds

\* Longest item list of the root file in the module-tree crates.
MaxDecls == 2
\* Longest item list of the root file in the single-file (item) crates.
MaxItems == 2
MaxImpls == 3

\* ----------------------------------------------------------------- strings

\* Module names used by the crates.
ModNames == {"a", "a0", "main", "lib"}
\* File stems that can occur.
Stems == ModNames \cup {"lib", "mod"}

\* UTF-8 bytes of the names and separators that take part in comparisons.
NameBytes(s) ==
    CASE s = "a" -> <<97>>
      [] s = "a0" -> <<97, 48>>
      [] s = "main" -> <<109, 97, 105, 110>>
      [] s = "lib" -> <<108, 105, 98>>
      [] s = "mod" -> <<109, 111, 100>>
      [] s = "src" -> <<115, 114, 99>>
      [] s = "::" -> <<58, 58>>
      [] s = "." -> <<46>>
      [] s = "/" -> <<47>>
      [] s = ".rs" -> <<46, 114, 115>>
      [] s = "Point" -> <<80, 111, 105, 110, 116>>
      [] s = "Hidden" -> <<72, 105, 100, 100, 101, 110>>
      [] s = "Pair" -> <<80, 97, 105, 114>>

\* UTF-8 bytes of a name, a separator or a file name "<stem>.rs".
Bytes(s) ==
    IF \E n \in Stems : n \o ".rs" = s
    THEN NameBytes(CHOOSE n \in Stems : n \o ".rs" = s) \o NameBytes(".rs")
    ELSE NameBytes(s)

\* slice.join(sep), as bytes.
RECURSIVE JoinBytes(_, _)
JoinBytes(strs, sep) ==
    IF strs = <<>> THEN <<>>
    ELSE IF Len(strs) = 1 THEN Bytes(strs[1])
    ELSE Bytes(strs[1]) \o Bytes(sep) \o JoinBytes(Tail(strs), sep)

\* Ordering of str::cmp: bytewise lexicographic; -1, 0 or 1.
RECURSIVE CmpBytes(_, _)
CmpBytes(x, y) ==
    IF x = <<>> /\ y = <<>> THEN 0
    ELSE IF x = <<>> THEN -1
    ELSE IF y = <<>> THEN 1
    ELSE IF x[1] < y[1] THEN -1
    ELSE IF x[1] > y[1] THEN 1
    ELSE CmpBytes(Tail(x), Tail(y))

\* Ordering::then
Then(c1, c2) == IF c1 # 0 THEN c1 ELSE c2

\* ------------------------------------------------------------------- paths
\* A path is the sequence of its components below the crate root.

Front(p) == SubSeq(p, 1, Len(p) - 1)
Last(p) == p[Len(p)]
Join(p, name) == Append(p, name)

\* The canonical path as the string the output carries (bytes).
PathBytes(p) == JoinBytes(p, "/")

RootFile == <<"src", "lib.rs">>

\* Every path the crates of the model can hold.
AllPaths ==
    { RootFile, <<"src", "a.rs">>, <<"src", "a", "mod.rs">>, <<"src", "a0.rs">>,
      <<"src", "main.rs">>, <<"src", "a", "a.rs">> }

Absent == [kind |-> "absent", ok |-> FALSE, items |-> <<>>, to |-> <<>>]
File(items) == [kind |-> "file", ok |-> TRUE, items |-> items, to |-> <<>>]
\* A file that cannot be read or does not parse.
BadFile == [kind |-> "file", ok |-> FALSE, items |-> <<>>, to |-> <<>>]
Link(to) == [kind |-> "link", ok |-> TRUE, items |-> <<>>, to |-> to]

\* fs::canonicalize: symbolic links resolved.
Canonicalize(p) == IF fs[p].kind = "link" THEN fs[p].to ELSE p

\* Path::exists: follows symbolic links.
Exists(p) ==
    /\ p \in DOMAIN fs
    /\ fs[p].kind # "absent"
    /\ fs[p].kind = "link" => fs[fs[p].to].kind = "file"

\* ------------------------------------------------------------- syntax tree

PubMod(name) == [kind |-> "mod", vis |-> "pub", ident |-> name, inline |-> FALSE, content |-> <<>>]
Mod(vis, name) == [kind |-> "mod", vis |-> vis, ident |-> name, inline |-> FALSE, content |-> <<>>]
InlineMod(vis, name, items) ==
    [kind |-> "mod", vis |-> vis, ident |-> name, inline |-> TRUE, content |-> items]

\* is_public accepting every explicit visibility (pub(crate) as well as pub).
is_public_any(vis) == vis # "priv"
is_public(vis) == vis = "pub"

\* Generic parameters.
TypeParam(name) == [kind |-> "type", ident |-> name]
LifetimeParam(name) == [kind |-> "lifetime", ident |-> name]
ConstParam(name) == [kind |-> "const", ident |-> name]

\* Function arguments: a receiver, or a pattern with a type.
Receiver(reference, mutability) ==
    [kind |-> "receiver", reference |-> reference, mutability |-> mutability]
Typed(name, ty) == [kind |-> "typed", pat |-> [kind |-> "ident", text |-> name], ty |-> ty]
TypedPat(text, ty) == [kind |-> "typed", pat |-> [kind |-> "tuple", text |-> text], ty |-> ty]

\* Signature: output "" is ReturnType::Default.
Sig(name, generics, inputs, output) ==
    [ident |-> name, generics |-> generics, inputs |-> inputs, output |-> output]

Const(vis, name, ty) == [kind |-> "const", vis |-> vis, ident |-> name, ty |-> ty]
Fn(vis, sig) == [kind |-> "fn", vis |-> vis, sig |-> sig]
Field(vis, name, ty) == [vis |-> vis, ident |-> name, ty |-> ty]
\* style: "named", "unnamed" (tuple struct) or "unit".
Struct(vis, name, generics, style, named) ==
    [kind |-> "struct", vis |-> vis, ident |-> name, generics |-> generics,
     style |-> style, named |-> named]
Variant(name, style) == [ident |-> name, style |-> style]
Enum(vis, name, generics, variants) ==
    [kind |-> "enum", vis |-> vis, ident |-> name, generics |-> generics,
     variants |-> variants]
TraitFn(sig) == [kind |-> "fn", sig |-> sig]
TraitType(name) == [kind |-> "type", sig |-> Sig(name, <<>>, <<>>, "")]
TraitConst(name) == [kind |-> "const", sig |-> Sig(name, <<>>, <<>>, "")]
Trait(vis, name, generics, supertraits, items) ==
    [kind |-> "trait", vis |-> vis, ident |-> name, generics |-> generics,
     supertraits |-> supertraits, items |-> items]
ImplFn(vis, sig) == [kind |-> "fn", vis |-> vis, sig |-> sig]
ImplConst(vis, name) == [kind |-> "const", vis |-> vis, sig |-> Sig(name, <<>>, <<>>, "")]
\* self_ty: [kind |-> "path", text |-> last segment] or another type form.
Impl(generics, trait_, self_ty, items) ==
    [kind |-> "impl", generics |-> generics, trait_ |-> trait_, self_ty |-> self_ty,
     items |-> items]
PathType(name) == [kind |-> "path", text |-> name]
RefType(text) == [kind |-> "reference", text |-> text]
\* name: <<>> for a macro without an identifier.
Macro(attrs, name) == [kind |-> "macro", attrs |-> attrs, name |-> name]
Use(vis) == [kind |-> "use", vis |-> vis]

\* ------------------------------------------------------------- extraction

SkipIssue(file, kind, snippet) == [file |-> file, kind |-> kind, snippet |-> snippet]
ExtractField(name, type_text) == [name |-> name, type_text |-> type_text]

macro_stub(name) ==
    [name |-> name, type_params |-> <<>>,
     params |-> <<ExtractField("tokens", "Tokens")>>, return_type |-> "Tokens"]

return_type_to_string(ret) == IF ret = "" THEN "()" ELSE ret

\* parse_type_params reporting lifetimes only: a const parameter is dropped
\* without an issue.
RECURSIVE parse_type_params_lifetimes_only(_, _, _)
parse_type_params_lifetimes_only(generics, file, issues) ==
    IF generics = <<>> THEN [out |-> <<>>, issues |-> issues]
    ELSE LET param == Head(generics) IN
         IF param.kind = "type"
         THEN LET rest == parse_type_params_lifetimes_only(Tail(generics), file, issues)
              IN  [out |-> <<param.ident>> \o rest.out, issues |-> rest.issues]
         ELSE IF param.kind = "lifetime"
         THEN parse_type_params_lifetimes_only(Tail(generics), file,
                  Append(issues, SkipIssue(file, "generic", param.ident)))
         ELSE parse_type_params_lifetimes_only(Tail(generics), file, issues)

\* Returns the type-parameter names and the issue list it pushed onto.
RECURSIVE parse_type_params(_, _, _)
parse_type_params(generics, file, issues) ==
    IF generics = <<>> THEN [out |-> <<>>, issues |-> issues]
    ELSE LET param == Head(generics) IN
         IF param.kind = "type"
         THEN LET rest == parse_type_params(Tail(generics), file, issues)
              IN  [out |-> <<param.ident>> \o rest.out, issues |-> rest.issues]
         ELSE parse_type_params(Tail(generics), file,
                                Append(issues, SkipIssue(file, "generic", param.ident)))

\* The loop of parse_signature over sig.inputs.
RECURSIVE parse_inputs(_, _, _)
parse_inputs(inputs, file, issues) ==
    IF inputs = <<>> THEN [params |-> <<>>, issues |-> issues]
    ELSE LET input == Head(inputs) IN
         IF input.kind = "receiver"
         THEN LET name == IF input.reference /\ input.mutability THEN "&mut self"
                          ELSE IF input.reference THEN "&self"
                          ELSE "self"
                  rest == parse_inputs(Tail(inputs), file, issues)
              IN  [params |-> <<ExtractField(name, "self")>> \o rest.params,
                   issues |-> rest.issues]
         ELSE IF input.pat.kind = "ident"
         THEN LET rest == parse_inputs(Tail(inputs), file, issues)
              IN  [params |-> <<ExtractField(input.pat.text, input.ty)>> \o rest.params,
                   issues |-> rest.issues]
         ELSE LET rest == parse_inputs(Tail(inputs), file,
                              Append(issues, SkipIssue(file, "param", input.pat.text)))
              IN  [params |-> <<ExtractField("unsupported", input.ty)>> \o rest.params,
                   issues |-> rest.issues]

parse_signature(sig, file, issues) ==
    LET tp == parse_type_params(sig.generics, file, issues)
        ps == parse_inputs(sig.inputs, file, tp.issues)
    IN  [fn |-> [name |-> sig.ident, type_params |-> tp.out, params |-> ps.params,
                 return_type |-> return_type_to_string(sig.output)],
         issues |-> ps.issues]

parse_const(item) == ExtractField(item.ident, item.ty)

\* The public named fields of a struct, in declaration order.
RECURSIVE public_fields(_)
public_fields(named) ==
    IF named = <<>> THEN <<>>
    ELSE IF ~is_public(Head(named).vis) THEN public_fields(Tail(named))
    ELSE <<ExtractField(Head(named).ident, Head(named).ty)>> \o public_fields(Tail(named))

parse_struct(item, file, issues) ==
    LET tp == parse_type_params(item.generics, file, issues) IN
    [struct |-> [name |-> item.ident, type_params |-> tp.out,
                 fields |-> IF item.style = "named" THEN public_fields(item.named)
                            ELSE <<>>],
     issues |-> IF item.style = "unnamed"
                THEN Append(tp.issues, SkipIssue(file, "struct", item.ident))
                ELSE tp.issues]

\* The loop of parse_enum over the variants: the issues it pushes.
RECURSIVE variant_issues(_, _, _)
variant_issues(variants, file, issues) ==
    IF variants = <<>> THEN issues
    ELSE variant_issues(Tail(variants), file,
             IF Head(variants).style # "unit"
             THEN Append(issues, SkipIssue(file, "enum", Head(variants).ident))
             ELSE issues)

parse_enum(item, file, issues) ==
    LET tp == parse_type_params(item.generics, file, issues) IN
    [enum |-> [name |-> item.ident, type_params |-> tp.out,
               variants |-> [i \in 1..Len(item.variants) |-> item.variants[i].ident]],
     issues |-> variant_issues(item.variants, file, tp.issues)]

Contains(seq, x) == \E i \in 1..Len(seq) : seq[i] = x

\* The loop of parse_trait over the trait's members; acc holds type_params,
\* methods and issues.
RECURSIVE parse_trait_items(_, _, _)
parse_trait_items(items, file, acc) ==
    IF items = <<>> THEN acc
    ELSE LET trait_item == Head(items) IN
         parse_trait_items(Tail(items), file,
             IF trait_item.kind = "fn"
             THEN LET m == parse_signature(trait_item.sig, file, acc.issues)
                  IN  [acc EXCEPT !.methods = Append(@, m.fn), !.issues = m.issues]
             ELSE IF trait_item.kind = "type"
             THEN IF Contains(acc.type_params, trait_item.sig.ident) THEN acc
                  ELSE [acc EXCEPT !.type_params = Append(@, trait_item.sig.ident)]
             ELSE [acc EXCEPT !.issues =
                        Append(@, SkipIssue(file, "trait", trait_item.sig.ident))])

parse_trait(item, file, issues) ==
    LET tp == parse_type_params(item.generics, file, issues)
        acc == parse_trait_items(item.items, file,
                   [type_params |-> tp.out, methods |-> <<>>, issues |-> tp.issues])
    IN  [trait |-> [name |-> item.ident, type_params |-> acc.type_params,
                    super_traits |-> item.supertraits, methods |-> acc.methods],
         issues |-> acc.issues]

\* The loop of parse_impl over the block's members.
RECURSIVE parse_impl_items(_, _, _)
parse_impl_items(items, file, acc) ==
    IF items = <<>> THEN acc
    ELSE LET impl_item == Head(items) IN
         parse_impl_items(Tail(items), file,
             IF impl_item.kind = "fn" /\ is_public(impl_item.vis)
             THEN LET m == parse_signature(impl_item.sig, file, acc.issues)
                  IN  [methods |-> Append(acc.methods, m.fn), issues |-> m.issues]
             ELSE acc)

NoPending == [target |-> "", methods |-> <<>>]

\* parse_impl without the methods.is_empty() return: a block without public
\* methods yields an entry with no methods.
parse_impl_keeps_empty(item, file, issues) ==
    IF item.trait_
    THEN [some |-> FALSE, pending |-> NoPending, issues |-> issues]
    ELSE IF item.self_ty.kind # "path"
    THEN [some |-> FALSE, pending |-> NoPending,
          issues |-> Append(issues, SkipIssue(file, "impl", item.self_ty.text))]
    ELSE LET acc == parse_impl_items(item.items, file,
                        [methods |-> <<>>, issues |-> issues])
         IN  [some |-> TRUE,
              pending |-> [target |-> item.self_ty.text, methods |-> acc.methods],
              issues |-> acc.issues]

\* Option<PendingMethods> as some/pending, and the issue list pushed onto.
parse_impl(item, file, issues) ==
    IF item.trait_
    THEN [some |-> FALSE, pending |-> NoPending, issues |-> issues]
    ELSE IF item.self_ty.kind # "path"
    THEN [some |-> FALSE, pending |-> NoPending,
          issues |-> Append(issues, SkipIssue(file, "impl", item.self_ty.text))]
    ELSE LET acc == parse_impl_items(item.items, file,
                        [methods |-> <<>>, issues |-> issues])
         IN  IF acc.methods = <<>>
             THEN [some |-> FALSE, pending |-> NoPending, issues |-> acc.issues]
             ELSE [some |-> TRUE,
                   pending |-> [target |-> item.self_ty.text, methods |-> acc.methods],
                   issues |-> acc.issues]

has_macro_export(attrs) == \E i \in 1..Len(attrs) : attrs[i] = "macro_export"

\* ------------------------------------------------------------ the walker

\* resolve_child_module_file trying <name>/mod.rs before <name>.rs.
resolve_child_module_file_nested_first(base_dir, module_name) ==
    LET direct == Join(base_dir, module_name \o ".rs")
        nested == Join(Join(base_dir, module_name), "mod.rs")
    IN  IF Exists(nested) THEN [ok |-> TRUE, path |-> nested]
        ELSE IF Exists(direct) THEN [ok |-> TRUE, path |-> direct]
        ELSE [ok |-> FALSE, path |-> <<>>]

resolve_child_module_file(base_dir, module_name) ==
    LET direct == Join(base_dir, module_name \o ".rs")
        nested == Join(Join(base_dir, module_name), "mod.rs")
    IN  IF Exists(direct) THEN [ok |-> TRUE, path |-> direct]
        ELSE IF Exists(nested) THEN [ok |-> TRUE, path |-> nested]
        ELSE [ok |-> FALSE, path |-> <<>>]

\* module_base_dir_for_file treating every file as a module root.
module_base_dir_for_file_parent(file_path) == Front(file_path)

module_base_dir_for_file(file_path) ==
    LET parent == Front(file_path)
        name == Last(file_path)
    IN  IF name = "mod.rs" \/ name = "lib.rs" \/ name = "main.rs" THEN parent
        ELSE LET stem == CHOOSE s \in Stems : s \o ".rs" = name
             IN  Join(parent, stem)

EmptyModule(file_label, parts) ==
    [file |-> file_label, parts |-> parts, consts |-> <<>>, enums |-> <<>>,
     structs |-> <<>>, traits |-> <<>>, functions |-> <<>>,
     pending_methods |-> <<>>, issues |-> <<>>]

\* Entry of collect_module_items: the module under construction and the loop position.
\* `inline` tells an inline module body from a file's item list.
Frame(file_label, parts, base_dir, items, inline) ==
    [file_label |-> file_label, parts |-> parts, base_dir |-> base_dir,
     items |-> items, idx |-> 1, module |-> EmptyModule(file_label, parts),
     inline |-> inline]

Top == stack[Len(stack)]
Item == Top.items[Top.idx]
AtItem == pc = "walk" /\ stack # <<>> /\ Top.idx <= Len(Top.items)

\* The innermost frame moved past its current item, with its module replaced.
Advance(module) ==
    [stack EXCEPT ![Len(stack)] = [@ EXCEPT !.idx = @ + 1, !.module = module]]

\* An error path that still prints the modules collected so far.
Fail_partial_output(msg) ==
    /\ pc' = "failed"
    /\ stack' = <<>>
    /\ stderr' = Append(stderr, msg)
    /\ stdout' = Append(stdout, [schema |-> 1, modules |-> out])
    /\ UNCHANGED out

\* An error propagated by `?` through every frame up to main.
Fail(msg) ==
    /\ pc' = "failed"
    /\ stack' = <<>>
    /\ stderr' = Append(stderr, msg)
    /\ UNCHANGED <<stdout, out>>

\* collect_module_file without the visited-file check: every encounter reads,
\* parses and collects the file again.
collect_module_file_no_dedup(file_path, parts, below) ==
    LET canonical == Canonicalize(file_path) IN
    /\ calls' = [calls EXCEPT ![canonical] = @ + 1]
    /\ seen' = seen \cup {canonical}
    /\ IF ~fs[canonical].ok
       THEN /\ Fail("Failed to read or parse module file")
            /\ UNCHANGED reads
       ELSE /\ reads' = [reads EXCEPT ![canonical] = Append(@, parts)]
            /\ stack' = Append(below,
                          Frame(canonical, parts, module_base_dir_for_file(canonical),
                                fs[canonical].items, FALSE))
            /\ pc' = "walk"
            /\ UNCHANGED <<out, stdout, stderr>>

\* collect_module_file(file_path, parts), called with the frames in `below`.
collect_module_file(file_path, parts, below) ==
    LET canonical == Canonicalize(file_path) IN
    /\ calls' = [calls EXCEPT ![canonical] = @ + 1]
    /\ IF canonical \in seen
       THEN /\ stack' = below
            /\ pc' = "walk"
            /\ UNCHANGED <<seen, reads, out, stdout, stderr>>
       ELSE /\ seen' = seen \cup {canonical}
            /\ IF ~fs[canonical].ok
               THEN /\ Fail("Failed to read or parse module file")
                    /\ UNCHANGED reads
               ELSE /\ reads' = [reads EXCEPT ![canonical] = Append(@, parts)]
                    /\ stack' = Append(below,
                                  Frame(canonical, parts,
                                        module_base_dir_for_file(canonical),
                                        fs[canonical].items, FALSE))
                    /\ pc' = "walk"
                    /\ UNCHANGED <<out, stdout, stderr>>

\* ---------------------------------------------- collect_module_items steps

IsPubMod(item) == item.kind = "mod" /\ is_public(item.vis)

\* Item::Mod, public, with an inline body: recurse with the same file label.
ModInline ==
    /\ AtItem
    /\ IsPubMod(Item) /\ Item.inline
    /\ LET child_parts == Append(Top.parts, Item.ident)
           inline_base == Join(Top.base_dir, Item.ident)
       IN  stack' = Append(Advance(Top.module),
                           Frame(Top.file_label, child_parts, inline_base, Item.content,
                                 TRUE))
    /\ UNCHANGED <<args, fs, pc, seen, out, stdout, stderr, calls, reads, resolved,
                   origin, runs, prev>>

\* Item::Mod, public, naming an external file: resolve it and visit the file.
ModExtern ==
    /\ AtItem
    /\ IsPubMod(Item) /\ ~Item.inline
    /\ LET child_parts == Append(Top.parts, Item.ident)
           child_file == resolve_child_module_file(Top.base_dir, Item.ident)
       IN  /\ resolved' = resolved \cup
                  {[base |-> Top.base_dir, name |-> Item.ident, vis |-> Item.vis,
                    ok |-> child_file.ok, path |-> child_file.path]}
           /\ IF ~child_file.ok
              THEN /\ Fail("Could not resolve pub mod")
                   /\ UNCHANGED <<seen, calls, reads>>
              ELSE collect_module_file(child_file.path, child_parts,
                                       Advance(Top.module))
    /\ UNCHANGED <<args, fs, origin, runs, prev>>

\* The frame steps past its item with `module` as the module under construction.
StepTo(module) ==
    /\ stack' = Advance(module)
    /\ UNCHANGED <<args, fs, pc, seen, out, stdout, stderr, calls, reads, resolved,
                   origin, runs, prev>>

StepConst ==
    /\ AtItem
    /\ Item.kind = "const" /\ is_public(Item.vis)
    /\ StepTo([Top.module EXCEPT !.consts = Append(@, parse_const(Item))])

StepFn ==
    /\ AtItem
    /\ Item.kind = "fn" /\ is_public(Item.vis)
    /\ LET r == parse_signature(Item.sig, Top.file_label, Top.module.issues)
       IN  StepTo([Top.module EXCEPT !.functions = Append(@, r.fn),
                                     !.issues = r.issues])

StepStruct ==
    /\ AtItem
    /\ Item.kind = "struct" /\ is_public(Item.vis)
    /\ LET r == parse_struct(Item, Top.file_label, Top.module.issues)
       IN  StepTo([Top.module EXCEPT !.structs = Append(@, r.struct),
                                     !.issues = r.issues])

StepEnum ==
    /\ AtItem
    /\ Item.kind = "enum" /\ is_public(Item.vis)
    /\ LET r == parse_enum(Item, Top.file_label, Top.module.issues)
       IN  StepTo([Top.module EXCEPT !.enums = Append(@, r.enum),
                                     !.issues = r.issues])

StepTrait ==
    /\ AtItem
    /\ Item.kind = "trait" /\ is_public(Item.vis)
    /\ LET r == parse_trait(Item, Top.file_label, Top.module.issues)
       IN  StepTo([Top.module EXCEPT !.traits = Append(@, r.trait),
                                     !.issues = r.issues])

StepImpl ==
    /\ AtItem
    /\ Item.kind = "impl"
    /\ LET r == parse_impl(Item, Top.file_label, Top.module.issues)
       IN  StepTo([Top.module EXCEPT
                      !.pending_methods = IF r.some THEN Append(@, r.pending) ELSE @,
                      !.issues = r.issues])

StepMacro ==
    /\ AtItem
    /\ Item.kind = "macro" /\ has_macro_export(Item.attrs)
    /\ IF Item.name # <<>>
       THEN StepTo([Top.module EXCEPT !.functions = Append(@, macro_stub(Item.name[1]))])
       ELSE StepTo([Top.module EXCEPT
                       !.issues = Append(@, SkipIssue(Top.file_label, "macro",
                                                      "macro_rules"))])

\* The arm `_ => {}`: private items, private modules, unexported macros and
\* every other item kind.
HasVis(item) == item.kind \in {"mod", "const", "fn", "struct", "enum", "trait"}
StepOther ==
    /\ AtItem
    /\ \/ HasVis(Item) /\ ~is_public(Item.vis)
       \/ Item.kind = "macro" /\ ~has_macro_export(Item.attrs)
       \/ Item.kind = "use"
    /\ StepTo(Top.module)

\* Stable insertion of x into the sorted sequence s (Vec::sort_by is stable)
\* under |a, b| a.target.cmp(&b.target).
RECURSIVE InsertPending_before_equal(_, _)
InsertPending_before_equal(s, x) ==
    IF s = <<>> THEN <<x>>
    ELSE IF CmpBytes(Bytes(x.target), Bytes(Head(s).target)) <= 0 THEN <<x>> \o s
    ELSE <<Head(s)>> \o InsertPending_before_equal(Tail(s), x)

RECURSIVE InsertPending(_, _)
InsertPending(s, x) ==
    IF s = <<>> THEN <<x>>
    ELSE IF CmpBytes(Bytes(x.target), Bytes(Head(s).target)) < 0 THEN <<x>> \o s
    ELSE <<Head(s)>> \o InsertPending(Tail(s), x)

RECURSIVE SortPending(_)
SortPending(s) ==
    IF s = <<>> THEN <<>> ELSE InsertPending(SortPending(Front(s)), Last(s))

\* End of the item loop: sort the pending methods, push the module, return.
FinishModule ==
    /\ pc = "walk" /\ stack # <<>> /\ Top.idx > Len(Top.items)
    /\ LET module == IF Top.module.pending_methods # <<>>
                     THEN [Top.module EXCEPT !.pending_methods = SortPending(@)]
                     ELSE Top.module
       IN  out' = Append(out, module)
    /\ stack' = Front(stack)
    /\ origin' = Append(origin, Top.items)
    /\ UNCHANGED <<args, fs, pc, seen, stdout, stderr, calls, reads, resolved,
                   runs, prev>>

\* ------------------------------------------------------- extract_modules, run

\* The comparator of modules.sort_by in extract_modules.
SortKey(parts) == IF parts = <<>> THEN <<>> ELSE JoinBytes(parts, "::")
ModuleCmp(a, b) ==
    Then(CmpBytes(SortKey(a.parts), SortKey(b.parts)),
         CmpBytes(PathBytes(a.file), PathBytes(b.file)))

\* The place element i of s takes in a stable sort under ModuleCmp: behind every
\* smaller element and every equal one that stood before it.
ModuleRank(s, i) ==
    1 + Cardinality({j \in 1..Len(s) :
                       \/ ModuleCmp(s[j], s[i]) < 0
                       \/ ModuleCmp(s[j], s[i]) = 0 /\ j < i})

\* extract_modules without its sort: the modules stay in traversal order.
SortModules_unsorted(s) == s

\* modules.sort_by (stable).
SortModules(s) ==
    [k \in 1..Len(s) |-> s[CHOOSE i \in 1..Len(s) : ModuleRank(s, i) = k]]

\* run: anything but exactly one argument is a usage error.
RunUsage ==
    /\ pc = "start" /\ args # 1
    /\ Fail("Usage: tsubabindgen-extractor <manifest-path>")
    /\ UNCHANGED <<args, fs, seen, calls, reads, resolved, origin, runs, prev>>

\* extract_modules: the root file src/lib.rs must exist.
MissingRoot ==
    /\ pc = "start" /\ args = 1
    /\ ~Exists(RootFile)
    /\ Fail("Missing library root (expected src/lib.rs)")
    /\ UNCHANGED <<args, fs, seen, calls, reads, resolved, origin, runs, prev>>

\* extract_modules: visit the root file with the empty module path.
VisitRoot ==
    /\ pc = "start" /\ args = 1
    /\ Exists(RootFile)
    /\ collect_module_file(RootFile, <<>>, <<>>)
    /\ UNCHANGED <<args, fs, resolved, origin, runs, prev>>

\* The traversal returned Ok: extract_modules sorts the modules, run wraps
\* them with the schema tag and prints the document.
Emit ==
    /\ pc = "walk" /\ stack = <<>>
    /\ stdout' = Append(stdout, [schema |-> 1, modules |-> SortModules(out)])
    /\ pc' = "ok"
    /\ UNCHANGED <<args, fs, stack, seen, out, stderr, calls, reads, resolved,
                   origin, runs, prev>>

\* ------------------------------------------------------------ the crates

NoCalls == [p \in AllPaths |-> 0]
NoReads == [p \in AllPaths |-> <<>>]

Seqs(S, n) == UNION {[1..k -> S] : k \in 0..n}

\* Items of the root file of a module-tree crate.
DeclPool ==
    { PubMod("a"), PubMod("a0"), PubMod("main"),
      Mod("priv", "a"), Mod("crate", "a0"),
      InlineMod("pub", "a", <<PubMod("a")>>),
      InlineMod("pub", "a0", <<>>),
      InlineMod("priv", "a", <<PubMod("a0")>>) }

\* Items of the root file of a single-file crate.
ItemPool ==
    { Const("pub", "ANSWER", "i32"),
      Const("priv", "SECRET", "i32"),
      Fn("pub", Sig("first", <<LifetimeParam("'a"), TypeParam("T")>>,
                    <<Typed("value", "&'a str"), TypedPat("(p, q)", "(T, T)")>>, "T")),
      Fn("priv", Sig("helper", <<LifetimeParam("'h")>>, <<TypedPat("(r, s)", "(u8, u8)")>>, "")),
      Fn("crate", Sig("internal", <<>>, <<>>, "")),
      Struct("pub", "Point", <<ConstParam("N")>>, "named",
             <<Field("pub", "x", "i32"), Field("priv", "y", "i32")>>),
      Struct("pub", "Pair", <<>>, "unnamed", <<>>),
      Struct("priv", "Hidden", <<LifetimeParam("'s")>>, "unnamed", <<>>),
      Enum("pub", "Event", <<>>,
           <<Variant("Ready", "unit"), Variant("Message", "unnamed"),
             Variant("Moved", "named")>>),
      Trait("pub", "Service", <<LifetimeParam("'t")>>, <<"Clone">>,
            <<TraitType("Output"), TraitType("Output"),
              TraitFn(Sig("run", <<>>, <<Receiver(TRUE, FALSE), TypedPat("[h, t]", "[u8; 2]")>>,
                          "Output")),
              TraitConst("ID")>>),
      Trait("priv", "Internal", <<>>, <<>>, <<TraitConst("SECRET_ID")>>),
      Impl(<<>>, FALSE, PathType("Point"),
           <<ImplFn("pub", Sig("new", <<>>, <<Typed("x", "i32")>>, "Point")),
             ImplFn("priv", Sig("reset", <<>>, <<Receiver(TRUE, TRUE)>>, "")),
             ImplConst("pub", "ORIGIN")>>),
      Impl(<<>>, FALSE, PathType("Point"),
           <<ImplFn("pub", Sig("sum", <<>>, <<Receiver(TRUE, FALSE)>>, "i32"))>>),
      Impl(<<LifetimeParam("'i")>>, FALSE, PathType("Pair"),
           <<ImplFn("pub", Sig("get", <<LifetimeParam("'g")>>, <<Receiver(FALSE, FALSE)>>,
                               "i32"))>>),
      Impl(<<>>, FALSE, PathType("Hidden"),
           <<ImplFn("pub", Sig("leak", <<>>, <<>>, "i32"))>>),
      Impl(<<>>, TRUE, PathType("Point"),
           <<ImplFn("pub", Sig("label", <<>>, <<Receiver(TRUE, FALSE)>>, "i32"))>>),
      Impl(<<>>, FALSE, RefType("& Point"),
           <<ImplFn("pub", Sig("peek", <<>>, <<>>, "i32"))>>),
      Impl(<<>>, FALSE, PathType("Point"),
           <<ImplFn("priv", Sig("touch", <<>>, <<>>, ""))>>),
      Macro(<<"macro_export">>, <<"make_pair">>),
      Macro(<<"macro_export">>, <<>>),
      Macro(<<>>, <<"local_only">>),
      Use("pub"),
      InlineMod("pub", "a", <<Struct("pub", "Pair", <<>>, "unnamed", <<>>)>>) }

TreeCrates ==
    { [p \in AllPaths |->
         CASE p = RootFile -> root
           [] p = <<"src", "a.rs">> -> fa
           [] p = <<"src", "a", "mod.rs">> -> fam
           [] p = <<"src", "a0.rs">> -> fa0
           [] p = <<"src", "main.rs">> -> fmain
           [] p = <<"src", "a", "a.rs">> -> faa] :
        root \in {File(items) : items \in Seqs(DeclPool, MaxDecls)},
        fa \in {Absent, BadFile, File(<<>>), File(<<PubMod("a")>>)},
        fam \in {Absent, File(<<>>)},
        fa0 \in {Absent, File(<<>>), Link(<<"src", "a.rs">>)},
        fmain \in {Absent, File(<<PubMod("a")>>), File(<<PubMod("main")>>),
                  File(<<PubMod("lib")>>)},
        faa \in {Absent, File(<<>>)} }

ItemCrates ==
    { [p \in AllPaths |-> IF p = RootFile THEN root ELSE Absent] :
        root \in {Absent, BadFile} \cup {File(items) : items \in Seqs(ItemPool, MaxItems)} }

\* Crates whose root file holds impl blocks only, up to MaxImpls of them.
ImplPool == {item \in ItemPool : item.kind = "impl"}
ImplCrates ==
    { [p \in AllPaths |-> IF p = RootFile THEN File(items) ELSE Absent] :
        items \in Seqs(ImplPool, MaxImpls) }

\* A symbolic link points at a regular file.
WellFormed(crate) ==
    \A p \in AllPaths : crate[p].kind = "link" => crate[crate[p].to].kind = "file"

Init ==
    /\ args \in 0..2
    /\ fs \in {c \in TreeCrates \cup ItemCrates \cup ImplCrates : WellFormed(c)}
    /\ args # 1 => fs = [p \in AllPaths |-> Absent]
    /\ pc = "start"
    /\ stack = <<>>
    /\ seen = {}
    /\ out = <<>>
    /\ stdout = <<>>
    /\ stderr = <<>>
    /\ calls = NoCalls
    /\ reads = NoReads
    /\ resolved = {}
    /\ origin = <<>>
    /\ runs = 1
    /\ prev = <<>>

\* The same crate with the public module declarations of one file in another
\* order, and the extractor invoked on it again.
Perms(n) == {p \in [1..n -> 1..n] : \A i, j \in 1..n : p[i] = p[j] => i = j}
Reorderings(items) ==
    { [i \in 1..Len(items) |-> items[p[i]]] :
        p \in {q \in Perms(Len(items)) :
                 \A i \in 1..Len(items) :
                     q[i] # i => IsPubMod(items[i]) /\ IsPubMod(items[q[i]])} }

Rerun ==
    /\ pc \in {"ok", "failed"} /\ runs = 1 /\ args = 1
    /\ \E p \in AllPaths :
         /\ fs[p].kind = "file" /\ fs[p].ok
         /\ \E items \in Reorderings(fs[p].items) :
              /\ items # fs[p].items
              /\ fs' = [fs EXCEPT ![p].items = items]
    /\ runs' = 2
    /\ prev' = stdout
    /\ pc' = "start"
    /\ stack' = <<>>
    /\ seen' = {}
    /\ out' = <<>>
    /\ stdout' = <<>>
    /\ stderr' = <<>>
    /\ calls' = NoCalls
    /\ reads' = NoReads
    /\ resolved' = {}
    /\ origin' = <<>>
    /\ UNCHANGED args

Next ==
    \/ RunUsage
    \/ MissingRoot
    \/ VisitRoot
    \/ ModInline
    \/ ModExtern
    \/ StepConst
    \/ StepFn
    \/ StepStruct
    \/ StepEnum
    \/ StepTrait
    \/ StepImpl
    \/ StepMacro
    \/ StepOther
    \/ FinishModule
    \/ Emit
    \/ Rerun

Spec == Init /\ [][Next]_vars

\* The steps of one invocation: everything but the next invocation itself.
RunStep ==
    \/ RunUsage
    \/ MissingRoot
    \/ VisitRoot
    \/ ModInline
    \/ ModExtern
    \/ StepConst
    \/ StepFn
    \/ StepStruct
    \/ StepEnum
    \/ StepTrait
    \/ StepImpl
    \/ StepMacro
    \/ StepOther
    \/ FinishModule
    \/ Emit

\* The crates of the termination check: the module-tree crates whose files refer
\* to each other, to themselves or to the crate root, and the crates with at most
\* one item in the root file.
LiveCrates ==
    { c \in TreeCrates :
        /\ c[<<"src", "a.rs">>] \in {Absent, File(<<PubMod("a")>>)}
        /\ c[<<"src", "a", "mod.rs">>] = Absent
        /\ c[<<"src", "a0.rs">>] \in {Absent, Link(<<"src", "a.rs">>)} }
    \cup { c \in ItemCrates \cup ImplCrates :
             c[RootFile] \in {Absent, BadFile} \cup {File(<<item>>) : item \in ItemPool} }

LiveInit == Init /\ fs \in LiveCrates

\* A started process keeps executing until main returns.
LiveSpec == LiveInit /\ [][Next]_vars /\ WF_vars(RunStep)

\* ------------------------------------------------------------------ claims

\* The modules of the printed document.
Doc == stdout[1].modules

Count(S) == Cardinality(S)

\* Public inline modules declared in an item list, nested ones included.
RECURSIVE InlineModules(_)
InlineModules(items) ==
    IF items = <<>> THEN 0
    ELSE (IF IsPubMod(Head(items)) /\ Head(items).inline
          THEN 1 + InlineModules(Head(items).content) ELSE 0)
         + InlineModules(Tail(items))

\* C1 (state part): a file is read, parsed and collected at most once, however
\* many public module declarations reach it; in the printed document the file has
\* one module record of its own (under the module path of its only visit) and,
\* besides it, only the records of its public inline modules.
C1_VisitedOnce ==
    /\ \A p \in AllPaths : Len(reads[p]) <= 1
    /\ pc = "ok" =>
          \A p \in AllPaths :
              calls[p] >= 1 =>
                  /\ Len(reads[p]) = 1
                  /\ Count({i \in 1..Len(Doc) :
                              Doc[i].file = p /\ Doc[i].parts = reads[p][1]}) = 1
                  /\ Count({i \in 1..Len(Doc) : Doc[i].file = p})
                        = 1 + InlineModules(fs[p].items)

\* The step at hand is a public external module declaration that resolves to a
\* file already in the visited set.
Reencounter ==
    /\ AtItem /\ IsPubMod(Item) /\ ~Item.inline
    /\ LET r == resolve_child_module_file(Top.base_dir, Item.ident)
       IN  r.ok /\ Canonicalize(r.path) \in seen

\* C1: every file reachable through several public module declarations is
\* visited exactly once and has one module record; each later encounter returns
\* success (the walk goes on with the next item) and adds no module record.
C1_Dedup ==
    /\ []C1_VisitedOnce
    /\ [][Reencounter =>
            /\ pc' = "walk"
            /\ out' = out
            /\ reads' = reads
            /\ stack' = Advance(Top.module)]_vars

\* A run that printed its document after some file was encountered twice.
C1_Witness == pc = "ok" /\ \E p \in AllPaths : calls[p] >= 2

\* (key(a), a.file) <= (key(b), b.file), key being the segments joined by sep.
KeyLe(a, b, sep) ==
    LET c == CmpBytes(JoinBytes(a.parts, sep), JoinBytes(b.parts, sep))
    IN  c < 0 \/ (c = 0 /\ CmpBytes(PathBytes(a.file), PathBytes(b.file)) <= 0)

Sorted(doc, sep) == \A i \in 1..(Len(doc) - 1) : KeyLe(doc[i], doc[i + 1], sep)

\* C2 as stated: the printed modules are sorted by the dotted form of their path
\* segments (joined with "."), ties broken by file.
C2_SortedByDottedPath == pc = "ok" => Sorted(Doc, ".")

\* C2 as amended: the printed modules are sorted by their path segments joined
\* with "::" (the root's empty path first), ties broken by file.
C2_SortedByColonPath == pc = "ok" => Sorted(Doc, "::")

\* A printed document in which two modules share a module path and the file
\* decides their order, and which the sort had to rearrange.
C2_Witness ==
    /\ pc = "ok"
    /\ Doc # out
    /\ \E i \in 1..(Len(Doc) - 1) :
          Doc[i].parts = Doc[i + 1].parts /\ Doc[i].file # Doc[i + 1].file

\* The identity of each printed module, in output order.
ModuleIds(doc) ==
    [i \in 1..Len(doc.modules) |->
        [parts |-> doc.modules[i].parts, file |-> doc.modules[i].file]]

\* C3: a crate that differs from another only in the order of the public module
\* declarations inside a file yields the same sequence of module records.
C3_OrderIndependent ==
    (runs = 2 /\ pc = "ok") =>
        /\ prev # <<>>
        /\ ModuleIds(stdout[1]) = ModuleIds(prev[1])

\* Some element of seq satisfies P.
AnyOf(seq, P(_)) == \E j \in 1..Len(seq) : P(seq[j])

ExportedMacro(item) == item.kind = "macro" /\ AnyOf(item.attrs, LAMBDA a : a = "macro_export")

\* Every entry of the module m, collected from `items`, comes from an item marked
\* pub (a function also from an exported macro), every struct field from a pub
\* field of a pub struct, every pending method from a pub method of an inherent
\* impl block of its target.
PublicOrigin(m, items) ==
    /\ \A k \in 1..Len(m.consts) :
         AnyOf(items, LAMBDA it : it.kind = "const" /\ it.vis = "pub"
                                /\ it.ident = m.consts[k].name)
    /\ \A k \in 1..Len(m.enums) :
         AnyOf(items, LAMBDA it : it.kind = "enum" /\ it.vis = "pub"
                                /\ it.ident = m.enums[k].name)
    /\ \A k \in 1..Len(m.traits) :
         AnyOf(items, LAMBDA it : it.kind = "trait" /\ it.vis = "pub"
                                /\ it.ident = m.traits[k].name)
    /\ \A k \in 1..Len(m.functions) :
         AnyOf(items, LAMBDA it :
             \/ it.kind = "fn" /\ it.vis = "pub" /\ it.sig.ident = m.functions[k].name
             \/ ExportedMacro(it) /\ it.name = <<m.functions[k].name>>)
    /\ \A k \in 1..Len(m.structs) :
         /\ AnyOf(items, LAMBDA it : it.kind = "struct" /\ it.vis = "pub"
                                   /\ it.ident = m.structs[k].name)
         /\ \A f \in 1..Len(m.structs[k].fields) :
              AnyOf(items, LAMBDA it :
                  /\ it.kind = "struct" /\ it.vis = "pub"
                  /\ it.ident = m.structs[k].name
                  /\ AnyOf(it.named, LAMBDA fd : fd.vis = "pub"
                                     /\ fd.ident = m.structs[k].fields[f].name))
    /\ \A k \in 1..Len(m.pending_methods) :
         \A f \in 1..Len(m.pending_methods[k].methods) :
              AnyOf(items, LAMBDA it :
                  /\ it.kind = "impl" /\ ~it.trait_
                  /\ it.self_ty = PathType(m.pending_methods[k].target)
                  /\ AnyOf(it.items, LAMBDA fn : fn.kind = "fn" /\ fn.vis = "pub"
                             /\ fn.sig.ident = m.pending_methods[k].methods[f].name))

\* No pending-method entry of m names a type that `items` declares without pub.
NoPrivateTarget(m, items) ==
    \A k \in 1..Len(m.pending_methods) :
        ~AnyOf(items, LAMBDA it : it.kind \in {"struct", "enum"} /\ it.vis # "pub"
                                /\ it.ident = m.pending_methods[k].target)

\* C4 as stated: no entry of a collected module originates from an item without
\* public visibility, and none is attributed to a private type.
C4_NothingPrivate ==
    \A i \in 1..Len(out) :
        PublicOrigin(out[i], origin[i]) /\ NoPrivateTarget(out[i], origin[i])

\* C4 as amended: every entry of a collected module originates from an item
\* marked pub (or an exported macro), every field from a pub field, every pending
\* method from a pub method; the visibility of an impl block's target type is not
\* looked at.
C4_PublicOrigin == \A i \in 1..Len(out) : PublicOrigin(out[i], origin[i])

\* A collected module with entries, taken from items that hold a private type
\* and an inherent impl block with a pub method for it.
C4_Witness ==
    \E i \in 1..Len(out) :
        /\ AnyOf(origin[i], LAMBDA it : it.kind = "struct" /\ it.vis = "priv"
                                      /\ it.ident = "Hidden")
        /\ out[i].pending_methods # <<>>
        /\ out[i].structs = <<>>

\* C5: all-or-nothing output. While the run is going nothing is printed; a failed
\* run has printed one error and no document, whatever was collected before; a
\* successful run has printed one document and no error.
C5_AllOrNothing ==
    /\ pc \in {"start", "walk"} => stdout = <<>> /\ stderr = <<>>
    /\ pc = "failed" => stdout = <<>> /\ Len(stderr) = 1
    /\ pc = "ok" => Len(stdout) = 1 /\ stderr = <<>>

\* A run that failed after modules had been collected.
C5_Witness == pc = "failed" /\ out # <<>>

IssueKinds == {"generic", "param", "struct", "enum", "trait", "impl", "macro"}

\* Lifetime and const parameters of a generic-parameter list.
LossyGenerics(generics) == Count({j \in 1..Len(generics) : generics[j].kind # "type"})

\* Unsupported constructs of kind k in a signature.
SigUnsupported(sig, k) ==
    IF k = "generic" THEN LossyGenerics(sig.generics)
    ELSE IF k = "param"
    THEN Count({j \in 1..Len(sig.inputs) :
                  sig.inputs[j].kind = "typed" /\ sig.inputs[j].pat.kind # "ident"})
    ELSE 0

\* Unsupported constructs of kind k in the extracted methods among `members`
\* (every method of a trait, the pub methods of an impl block).
RECURSIVE MethodsUnsupported(_, _, _)
MethodsUnsupported(members, k, pubOnly) ==
    IF members = <<>> THEN 0
    ELSE (IF Head(members).kind = "fn" /\ (pubOnly => Head(members).vis = "pub")
          THEN SigUnsupported(Head(members).sig, k) ELSE 0)
         + MethodsUnsupported(Tail(members), k, pubOnly)

\* Unsupported constructs of kind k in one item; implGenerics tells whether the
\* generic parameters of an inherent impl block itself are counted.
Unsupported(item, k, implGenerics) ==
    CASE item.kind = "fn" /\ item.vis = "pub" -> SigUnsupported(item.sig, k)
      [] item.kind = "struct" /\ item.vis = "pub" ->
            IF k = "generic" THEN LossyGenerics(item.generics)
            ELSE IF k = "struct" /\ item.style = "unnamed" THEN 1
            ELSE 0
      [] item.kind = "enum" /\ item.vis = "pub" ->
            IF k = "generic" THEN LossyGenerics(item.generics)
            ELSE IF k = "enum"
            THEN Count({j \in 1..Len(item.variants) : item.variants[j].style # "unit"})
            ELSE 0
      [] item.kind = "trait" /\ item.vis = "pub" ->
            (IF k = "generic" THEN LossyGenerics(item.generics) ELSE 0)
            + (IF k = "trait"
               THEN Count({j \in 1..Len(item.items) :
                             item.items[j].kind \notin {"fn", "type"}})
               ELSE 0)
            + MethodsUnsupported(item.items, k, FALSE)
      [] item.kind = "impl" /\ ~item.trait_ ->
            IF item.self_ty.kind # "path" THEN (IF k = "impl" THEN 1 ELSE 0)
            ELSE (IF k = "generic" /\ implGenerics THEN LossyGenerics(item.generics)
                  ELSE 0)
                 + MethodsUnsupported(item.items, k, TRUE)
      [] ExportedMacro(item) -> IF k = "macro" /\ item.name = <<>> THEN 1 ELSE 0
      [] OTHER -> 0

RECURSIVE UnsupportedIn(_, _, _)
UnsupportedIn(items, k, implGenerics) ==
    IF items = <<>> THEN 0
    ELSE Unsupported(Head(items), k, implGenerics)
         + UnsupportedIn(Tail(items), k, implGenerics)

\* The module m, collected from `items`, holds for each kind as many issues as
\* `items` hold unsupported constructs of that kind, each labelled with m's file.
OneIssueEach(m, items, implGenerics) ==
    /\ \A k \in IssueKinds :
         Count({j \in 1..Len(m.issues) : m.issues[j].kind = k})
           = UnsupportedIn(items, k, implGenerics)
    /\ \A j \in 1..Len(m.issues) :
         m.issues[j].kind \in IssueKinds /\ m.issues[j].file = m.file

\* A run fails only for a structural reason: a usage error, a missing root, an
\* unresolved public module or a file that cannot be read or parsed.
OnlyFatalFails ==
    pc = "failed" =>
        \/ args # 1
        \/ ~Exists(RootFile)
        \/ \E r \in resolved : ~r.ok
        \/ \E p \in seen : ~fs[p].ok

\* C6 as stated: every unsupported construct of a collected module, the lifetime
\* and const parameters of every owning construct (an impl block included), has
\* exactly one issue in that module's list, and none makes the run fail.
C6_OneIssuePerConstruct ==
    /\ \A i \in 1..Len(out) : OneIssueEach(out[i], origin[i], TRUE)
    /\ OnlyFatalFails

\* C6 as amended: each lifetime or const parameter of a public function, struct,
\* enum or trait or of an extracted method, each public tuple struct, each
\* payload-carrying variant of a public enum, each non-identifier parameter of an
\* extracted signature, each non-nominal self type of an inherent impl block,
\* each unsupported member of a public trait and each unnamed exported macro has
\* exactly one issue in its module's list, and none makes the run fail; the
\* generic parameters of an impl block itself get no issue.
C6_OneIssuePerExtracted ==
    /\ \A i \in 1..Len(out) : OneIssueEach(out[i], origin[i], FALSE)
    /\ OnlyFatalFails

\* A printed document with a module that holds issues of two kinds.
C6_Witness ==
    /\ pc = "ok"
    /\ \E i \in 1..Len(out) :
         \E j, k \in 1..Len(out[i].issues) :
             out[i].issues[j].kind # out[i].issues[k].kind

\* An inherent impl block with a nominal self type and a public method.
Eligible(item) ==
    /\ item.kind = "impl" /\ ~item.trait_ /\ item.self_ty.kind = "path"
    /\ AnyOf(item.items, LAMBDA fn : fn.kind = "fn" /\ fn.vis = "pub")

RECURSIVE PubMethodNames(_)
PubMethodNames(members) ==
    IF members = <<>> THEN <<>>
    ELSE (IF Head(members).kind = "fn" /\ Head(members).vis = "pub"
          THEN <<Head(members).sig.ident>> ELSE <<>>)
         \o PubMethodNames(Tail(members))

\* The entry an eligible block stands for, and the same view of an output entry.
EntryOf(item) == [target |-> item.self_ty.text, methods |-> PubMethodNames(item.items)]
EntryNames(e) ==
    [target |-> e.target, methods |-> [j \in 1..Len(e.methods) |-> e.methods[j].name]]

\* Two sequences hold the same elements the same number of times.
SameBag(a, b) ==
    /\ Len(a) = Len(b)
    /\ \A k \in 1..Len(a) :
         Count({j \in 1..Len(a) : a[j] = a[k]}) = Count({j \in 1..Len(b) : b[j] = a[k]})

\* C7: the pending-method entries of a collected module correspond one-to-one
\* with the module's inherent impl blocks that have a nominal self type and a
\* public method: one entry per block, same-target blocks not merged, no entry
\* for any other block.
C7_OneEntryPerBlock ==
    \A i \in 1..Len(out) :
        LET blocks == SelectSeq(origin[i], Eligible)
        IN  SameBag([k \in 1..Len(out[i].pending_methods) |->
                        EntryNames(out[i].pending_methods[k])],
                    [k \in 1..Len(blocks) |-> EntryOf(blocks[k])])

\* A collected module with two entries for one target.
C7_Witness ==
    \E i \in 1..Len(out) :
        /\ Len(out[i].pending_methods) = 2
        /\ out[i].pending_methods[1].target = out[i].pending_methods[2].target

\* C8: each resolution takes <base>/<name>.rs when it exists, else
\* <base>/<name>/mod.rs when that exists, and else is an error that ends the run
\* in failure with nothing printed.
C8_SiblingFirst ==
    \A r \in resolved :
        LET direct == Append(r.base, r.name \o ".rs")
            nested == r.base \o <<r.name, "mod.rs">>
        IN  /\ Exists(direct) => r.ok /\ r.path = direct
            /\ ~Exists(direct) /\ Exists(nested) => r.ok /\ r.path = nested
            /\ ~Exists(direct) /\ ~Exists(nested) =>
                   ~r.ok /\ pc = "failed" /\ stdout = <<>>

\* A resolution done where both the sibling file and the nested one exist.
C8_Witness ==
    \E r \in resolved :
        Exists(Append(r.base, r.name \o ".rs")) /\ Exists(r.base \o <<r.name, "mod.rs">>)

RootLike(name) == name \in {"lib.rs", "main.rs", "mod.rs"}

\* C9: a file's items are collected with the file's parent directory as base if
\* the file is lib.rs, main.rs or mod.rs, and else with <parent>/<stem>; an inline
\* module is collected with the enclosing base joined with its name, under the
\* enclosing file's label and the enclosing module path extended by its name.
C9_BaseDir ==
    \A i \in 1..Len(stack) :
        LET f == stack[i] IN
        /\ f.module.file = f.file_label
        /\ IF f.inline
           THEN /\ i > 1
                /\ f.file_label = stack[i - 1].file_label
                /\ \E n \in ModNames :
                     /\ f.parts = Append(stack[i - 1].parts, n)
                     /\ f.base_dir = Append(stack[i - 1].base_dir, n)
           ELSE IF RootLike(Last(f.file_label))
           THEN f.base_dir = Front(f.file_label)
           ELSE /\ Len(f.base_dir) = Len(f.file_label)
                /\ Front(f.base_dir) = Front(f.file_label)
                /\ Last(f.base_dir) \o ".rs" = Last(f.file_label)

\* The items of a file that is no module root being collected from inside an
\* inline module.
C9_Witness ==
    \E i \in 2..Len(stack) :
        /\ stack[i - 1].inline
        /\ ~stack[i].inline
        /\ ~RootLike(Last(stack[i].file_label))

\* The step at hand is a module declaration that is not public.
AtPrivateMod == AtItem /\ Item.kind = "mod" /\ Item.vis # "pub"

\* Every printed module's file is the root or a file some public module
\* declaration resolved to.
ReachedPublicly ==
    /\ \A r \in resolved : r.vis = "pub"
    /\ pc = "ok" =>
         \A i \in 1..Len(Doc) :
             \/ Doc[i].file = RootFile
             \/ \E r \in resolved : r.ok /\ Canonicalize(r.path) = Doc[i].file

\* C10: a private module declaration is stepped over: no resolution, no visit,
\* no module record, no issue and no failure, whether its file exists or not;
\* only files reached through public declarations are printed.
C10_PrivateNotDescended ==
    /\ []ReachedPublicly
    /\ [][AtPrivateMod =>
            /\ resolved' = resolved
            /\ seen' = seen
            /\ calls' = calls
            /\ reads' = reads
            /\ out' = out
            /\ stderr' = stderr
            /\ pc' = "walk"
            /\ stack' = Advance(Top.module)]_vars

\* A printed document of a crate whose root declares a private external module
\* with no file, and one with a file that is not printed.
C10_Witness ==
    /\ pc = "ok"
    /\ \E j \in 1..Len(fs[RootFile].items) :
         LET it == fs[RootFile].items[j] IN
         /\ it.kind = "mod" /\ it.vis # "pub" /\ ~it.inline
         /\ ~Exists(<<"src", it.ident \o ".rs">>)
         /\ ~Exists(<<"src", it.ident, "mod.rs">>)
    /\ \E j \in 1..Len(fs[RootFile].items) :
         LET it == fs[RootFile].items[j] IN
         /\ it.kind = "mod" /\ it.vis # "pub" /\ ~it.inline
         /\ Exists(<<"src", it.ident \o ".rs">>)
         /\ \A i \in 1..Len(Doc) : Doc[i].file # <<"src", it.ident \o ".rs">>

TargetLe(a, b) == CmpBytes(Bytes(a), Bytes(b)) <= 0

PendingSorted(entries) ==
    \A j \in 1..(Len(entries) - 1) : TargetLe(entries[j].target, entries[j + 1].target)

WithTarget(entries, t) == SelectSeq(entries, LAMBDA e : e.target = t)

\* The entries of collected module i, and the entries its eligible impl blocks
\* stand for in source order.
PendingOf(i) ==
    [k \in 1..Len(out[i].pending_methods) |-> EntryNames(out[i].pending_methods[k])]
BlocksOf(i) ==
    LET blocks == SelectSeq(origin[i], Eligible)
    IN  [k \in 1..Len(blocks) |-> EntryOf(blocks[k])]

\* C11: in every module record, collected or printed, the pendingMethods
\* entries are in non-decreasing bytewise order of target, and the entries of
\* one target are in the source order of their impl blocks.
C11_SortedStable ==
    /\ \A i \in 1..Len(out) :
          /\ PendingSorted(out[i].pending_methods)
          /\ \A k \in 1..Len(PendingOf(i)) :
                WithTarget(PendingOf(i), PendingOf(i)[k].target)
                    = WithTarget(BlocksOf(i), PendingOf(i)[k].target)
    /\ stdout # <<>> =>
          /\ \A j \in 1..Len(Doc) : PendingSorted(Doc[j].pending_methods)
          /\ SameBag(Doc, out)

\* A printed module whose impl blocks were out of target order in the source,
\* with two different blocks of one target separated by a block of another.
C11_Witness ==
    /\ stdout # <<>>
    /\ \E i \in 1..Len(out) :
          /\ Len(BlocksOf(i)) = 3
          /\ BlocksOf(i)[1].target = BlocksOf(i)[3].target
          /\ BlocksOf(i)[1] # BlocksOf(i)[3]
          /\ BlocksOf(i)[2].target # BlocksOf(i)[1].target
          /\ BlocksOf(i) # PendingOf(i)

Ended == pc \in {"ok", "failed"}

\* A file is in the visited set while its items are being collected.
InsertedBeforeChildren ==
    \A k \in 1..Len(stack) : stack[k].file_label \in seen

\* No file is under collection twice at once, and none was descended into twice.
DescendedOnce ==
    /\ \A p \in AllPaths : Len(reads[p]) <= 1
    /\ \A j, k \in 1..Len(stack) :
          (~stack[j].inline /\ ~stack[k].inline
             /\ stack[j].file_label = stack[k].file_label) => j = k

\* C12: every invocation ends in success or in a fatal error, on every crate
\* layout, cyclic and self-referential ones included; a file is in the visited
\* set before its children are resolved and is descended into at most once.
C12_Terminates ==
    /\ []InsertedBeforeChildren
    /\ []DescendedOnce
    /\ (pc = "start") ~> Ended

\* A finished run in which a public module declaration led back to the crate
\* root, or a file's own declaration back to the file itself.
C12_Witness ==
    /\ pc = "ok"
    /\ \E r \in resolved :
          /\ r.ok
          /\ calls[Canonicalize(r.path)] >= 2
          /\ \/ Canonicalize(r.path) = RootFile
             \/ module_base_dir_for_file(Canonicalize(r.path)) = r.base
====
